---- MODULE Spec2Model ----
(***************************************************************************)
(* Model of the study scheduler: the store of DataHandler and its JSON    *)
(* document (src/data_handler.py), the StudyOptimizer of src/optimizer.py  *)
(* (urgency scoring, the greedy day-by-day session allocator and the       *)
(* time-block formatter) and the schedule page of the UI (src/app.py).     *)
(*                                                                         *)
(* Hours.  Every quantity of hours is an integer counting twentieths of an *)
(* hour (0.05 h): 10 is 0.5 h, 80 is 4.0 h, 160 is 8 h.  The inputs are    *)
(* multiples of a quarter hour (5 units): these are exact binary           *)
(* fractions, so the float arithmetic of the code (min, -, <=, >) is exact *)
(* on them and round(x, 1) is Python's round-half-to-even, whose results   *)
(* are tenths of an hour (2 units).                                        *)
(*                                                                         *)
(* Time.  A datetime is [ok, day, tod]: a calendar day and a time of day   *)
(* (0 = midnight, 1 = later that day); ok = FALSE stands for a due_date on *)
(* which the date arithmetic of calculate_urgency_score raises.            *)
(***************************************************************************)
EXTENDS Integers, Sequences, FiniteSets, TLC

VARIABLES
    assignments,                \* DataHandler.assignments
    available_hours_per_day,    \* StudyOptimizer.available_hours_per_day
    now,                        \* the clock read by datetime.now()
    pc,                         \* the caller: "idle", or the call that returned
    scored,                     \* index of the assignment last scored (0: none)
    score,                      \* value returned by calculate_urgency_score
    working_assignments,        \* simple_schedule's working copy at its return
    result,                     \* value returned by simple_schedule
    day_log,                    \* simple_schedule: the end of each day processed
    courses,                    \* DataHandler.courses
    file,                       \* the document data/study_data.json
    returned,                   \* value returned by add_course, load_data, save_data
    daily_sessions,             \* the argument of create_time_blocks
    time_blocks,                \* value returned by create_time_blocks
    schedule_data               \* generate_schedule's rows (app.py)

\* the store, the settings and the environment
state == <<assignments, courses, file, available_hours_per_day, now>>

\* what the last call handed back to the caller
outputs == <<scored, score, working_assignments, result, day_log, returned,
             daily_sessions, time_blocks, schedule_data>>

vars == <<state, pc, outputs>>

----------------------------------------------------------------------------
(* Bounds of the model *)

MaxAssignments == 2     \* assignments held by the store
MaxDaysAhead == 2       \* largest planning horizon tried by Spec
OverdueDays == 2        \* SpecScore: due dates reach this many days back
MaxDueDays == 27        \* SpecScore: due dates reach this many days ahead
MaxSessions == 2        \* SpecBlocks: sessions handed to create_time_blocks
MaxCourses == 2         \* courses held by the store
MaxRecords == 2         \* SpecLoad: records per list of the initial document

(* Program constants *)

DefaultHoursPerDay == 160   \* available_hours_per_day = 8
MinBlock == 10              \* the 0.5 h threshold of a meaningful block
MaxPerDay == 80             \* 4.0: at most 4 hours per assignment per day
MaxPriority == 5            \* priority levels are 1..5
ScenarioDays == 10          \* simple_schedule(days_ahead=10)
StartHour == 9              \* current_hour = 9: the day starts at 9 AM

TimesOfDay == {0, 1}
TicksPerDay == Cardinality(TimesOfDay)

DateTime(d, t) == [ok |-> TRUE, day |-> d, tod |-> t]
NotADatetime == [ok |-> FALSE, day |-> 0, tod |-> 0]

Min(a, b) == IF a <= b THEN a ELSE b
Max(a, b) == IF a >= b THEN a ELSE b

----------------------------------------------------------------------------
(* Pure functions of the code *)

\* datetime.date(): the date portion
Date(dt) == dt.day

Ticks(dt) == dt.day * TicksPerDay + dt.tod

\* whole days of the difference, rounded towards zero
DaysTruncated(due, n) ==
    LET t == Ticks(due) - Ticks(n)
    IN  IF t >= 0 THEN t \div TicksPerDay ELSE -((-t) \div TicksPerDay)

\* (assignment.due_date - datetime.now()).days: timedelta.days is the floor
DaysUntilDue(due, n) ==
    LET t == Ticks(due) - Ticks(n)
    IN  IF t >= 0 THEN t \div TicksPerDay
        ELSE -(((-t) + TicksPerDay - 1) \div TicksPerDay)

TimePressureUnclamped(days_until_due) == 15 - days_until_due

TimePressureSwapped(days_until_due) == Max(0, days_until_due - 15)

TimePressure(days_until_due) == Max(0, 15 - days_until_due)

\* the score with the "due today" case left to the general formula
ScoreWithoutDueToday(a, n) ==
    IF ~a.due_date.ok
    THEN a.priority * 10
    ELSE LET days_until_due == DaysUntilDue(a.due_date, n)
         IN  IF days_until_due < 0 THEN 100
             ELSE IF days_until_due = 1 THEN 80
             ELSE Min(100, TimePressure(days_until_due) + a.priority * 10)

\* StudyOptimizer.calculate_urgency_score
CalculateUrgencyScore(a, n) ==
    IF ~a.due_date.ok
    THEN a.priority * 10                       \* except Exception: fallback
    ELSE LET days_until_due == DaysUntilDue(a.due_date, n)
         IN  IF days_until_due < 0 THEN 100
             ELSE IF days_until_due = 0 THEN 90
             ELSE IF days_until_due <= 1 THEN 80
             ELSE Min(100, TimePressure(days_until_due) + a.priority * 10)

\* round(hours, 1) on a multiple of a quarter hour: ties go to the even tenth
Round1(h) ==
    LET tenths == h \div 2
    IN  IF h % 2 = 0 THEN h
        ELSE IF tenths % 2 = 0 THEN 2 * tenths ELSE 2 * (tenths + 1)

\* DataHandler.get_pending_assignments, as the positions of the pending
\* assignments in the store, in store order
RECURSIVE PendingFrom(_, _)
PendingFrom(store, i) ==
    IF i > Len(store) THEN <<>>
    ELSE IF ~store[i].completed THEN <<i>> \o PendingFrom(store, i + 1)
    ELSE PendingFrom(store, i + 1)

AllAssignments(store) == [i \in 1..Len(store) |-> i]

GetPendingAssignments(store) == PendingFrom(store, 1)

\* the working copy: one record per pending assignment
WorkingCopy(store, pending, n) ==
    [k \in 1..Len(pending) |->
        [assignment |-> pending[k],
         remaining_hours |-> store[pending[k]].estimated_hours,
         urgency |-> CalculateUrgencyScore(store[pending[k]], n)]]

\* list.sort(key=urgency, reverse=True): stable, highest urgency first
RECURSIVE InsertBeforeTies(_, _)
InsertBeforeTies(x, s) ==
    IF s = <<>> THEN <<x>>
    ELSE IF Head(s).urgency > x.urgency
         THEN <<Head(s)>> \o InsertBeforeTies(x, Tail(s))
         ELSE <<x>> \o s

RECURSIVE InsertByUrgency(_, _)
InsertByUrgency(x, s) ==
    IF s = <<>> THEN <<x>>
    ELSE IF Head(s).urgency >= x.urgency
         THEN <<Head(s)>> \o InsertByUrgency(x, Tail(s))
         ELSE <<x>> \o s

RECURSIVE SortByUrgency(_)
SortByUrgency(w) ==
    IF w = <<>> THEN <<>>
    ELSE InsertByUrgency(w[Len(w)], SortByUrgency(SubSeq(w, 1, Len(w) - 1)))

\* "Skip if assignment is due before this day"
NeverSkipped(due, day) == FALSE

DueOnOrBefore(due, day) == Date(due) <= day

DueBefore(due, day) == Date(due) < day

\* the allocation without the cap per assignment and day
HoursUncapped(remaining_hours, remaining_daily_hours) ==
    Min(remaining_hours, remaining_daily_hours)

\* min(remaining_hours, remaining_daily_hours, 4.0)
HoursToAllocate(remaining_hours, remaining_daily_hours) ==
    Min(remaining_hours, Min(remaining_daily_hours, MaxPerDay))

\* the session appended for an allocation of h hours
Session(store, item, h) ==
    [assignment |-> item.assignment,
     hours |-> Round1(h),
     urgency |-> item.urgency,
     due_date |-> Date(store[item.assignment].due_date)]

\* the loop over the working assignments for one day, from position k on
RECURSIVE ProcessItems(_, _, _, _, _, _)
ProcessItems(store, w, k, day, remaining_daily_hours, sessions) ==
    IF k > Len(w) \/ remaining_daily_hours <= MinBlock
    THEN [working |-> w, sessions |-> sessions,
          remaining_daily_hours |-> remaining_daily_hours]
    ELSE IF DueBefore(store[w[k].assignment].due_date, day)
    THEN ProcessItems(store, w, k + 1, day, remaining_daily_hours, sessions)
    ELSE IF w[k].remaining_hours <= 0
    THEN ProcessItems(store, w, k + 1, day, remaining_daily_hours, sessions)
    ELSE LET hours_to_allocate ==
                 HoursToAllocate(w[k].remaining_hours, remaining_daily_hours)
         IN  IF hours_to_allocate > MinBlock
             THEN ProcessItems(
                      store,
                      [w EXCEPT ![k].remaining_hours = @ - hours_to_allocate],
                      k + 1, day,
                      remaining_daily_hours - hours_to_allocate,
                      Append(sessions, Session(store, w[k], hours_to_allocate)))
             ELSE ProcessItems(store, w, k + 1, day, remaining_daily_hours,
                               sessions)

\* The loop over the days of the horizon, from day_offset on.  The log has
\* one entry per day processed: the working records when the day began and
\* when it ended, the day's sessions and the budget left at its end.
RECURSIVE ProcessDays(_, _, _, _, _, _, _, _)
ProcessDays(store, w, day_offset, days_ahead, current_date, budget, schedule, log) ==
    IF day_offset >= days_ahead
    THEN [working |-> w, schedule |-> schedule, log |-> log]
    ELSE LET day == current_date + day_offset
             d == ProcessItems(store, w, 1, day, budget, <<>>)
         IN  ProcessDays(store, d.working, day_offset + 1, days_ahead,
                         current_date, budget,
                         IF d.sessions # <<>>
                         THEN Append(schedule,
                                     [date |-> day, sessions |-> d.sessions])
                         ELSE schedule,
                         Append(log,
                                [date |-> day, before |-> w,
                                 working |-> d.working,
                                 sessions |-> d.sessions,
                                 remaining_daily_hours |->
                                     d.remaining_daily_hours]))

RECURSIVE SumHours(_)
SumHours(sessions) ==
    IF sessions = <<>> THEN 0
    ELSE Head(sessions).hours + SumHours(Tail(sessions))

RECURSIVE TotalHours(_)
TotalHours(schedule) ==
    IF schedule = <<>> THEN 0
    ELSE SumHours(Head(schedule).sessions) + TotalHours(Tail(schedule))

NoResult == [status |-> "", schedule |-> <<>>, total_study_hours |-> 0]

StoreWrittenBack(store, working) ==
    [i \in 1..Len(store) |->
        IF \E k \in 1..Len(working) : working[k].assignment = i
        THEN [store[i] EXCEPT !.estimated_hours =
                 working[CHOOSE k \in 1..Len(working) :
                             working[k].assignment = i].remaining_hours]
        ELSE store[i]]

\* The store after a run: the working records are fresh dicts that refer to
\* the stored Assignment objects, and the run assigns to the dicts only.
StoreAfterRun(store, working) == store

\* StudyOptimizer.simple_schedule: the value returned and the working copy
SimpleScheduleRun(store, budget, n, days_ahead) ==
    LET pending == GetPendingAssignments(store)
    IN  IF pending = <<>>
        THEN [working |-> <<>>, log |-> <<>>,
              result |-> [status |-> "No assignments", schedule |-> <<>>,
                          total_study_hours |-> 0]]
        ELSE LET sorted == SortByUrgency(WorkingCopy(store, pending, n))
                 run == ProcessDays(store, sorted, 0, days_ahead, Date(n),
                                    budget, <<>>, <<>>)
             IN  [working |-> run.working, log |-> run.log,
                  result |-> [status |-> "Success", schedule |-> run.schedule,
                              total_study_hours |-> TotalHours(run.schedule)]]

\* app.py, generate_schedule: min(estimated_hours, remaining_hours, 4)
AppHoursToAllocate(estimated_hours, remaining_hours) ==
    Min(Min(estimated_hours, remaining_hours), MaxPerDay)

\* the loop over sorted_assignments for one day, from position k on
RECURSIVE AppItems(_, _, _, _, _, _)
AppItems(store, sorted, k, day, remaining_hours, rows) ==
    IF k > Len(sorted) \/ remaining_hours <= 0
    THEN rows
    ELSE LET i == sorted[k].assignment
         IN  IF Date(store[i].due_date) < day
             THEN AppItems(store, sorted, k + 1, day, remaining_hours, rows)
             ELSE LET hours_to_allocate ==
                          AppHoursToAllocate(store[i].estimated_hours,
                                             remaining_hours)
                  IN  IF hours_to_allocate > MinBlock
                      THEN AppItems(store, sorted, k + 1, day,
                                    remaining_hours - hours_to_allocate,
                                    Append(rows,
                                           [date |-> day,
                                            assignment |-> i,
                                            hours |-> hours_to_allocate,
                                            priority |-> store[i].priority]))
                      ELSE AppItems(store, sorted, k + 1, day,
                                    remaining_hours, rows)

\* the loop over range(days_ahead), from day_offset on
RECURSIVE AppDays(_, _, _, _, _, _, _)
AppDays(store, sorted, day_offset, days_ahead, current_date, daily_hours, rows) ==
    IF day_offset >= days_ahead THEN rows
    ELSE AppDays(store, sorted, day_offset + 1, days_ahead, current_date,
                 daily_hours,
                 AppItems(store, sorted, 1, current_date + day_offset,
                          daily_hours, rows))

\* app.py, generate_schedule: schedule_data after the button is pressed
GenerateScheduleRun(store, n, days_ahead, daily_hours) ==
    LET pending == GetPendingAssignments(store)
        sorted_assignments == SortByUrgency(WorkingCopy(store, pending, n))
    IN  AppDays(store, sorted_assignments, 0, days_ahead, Date(n),
                daily_hours, <<>>)

AddCourseUnchecked(cs, course) ==
    [courses |-> Append(cs, course), returned |-> "True"]

\* DataHandler.add_course: the list afterwards and the value returned
AddCourseRun(cs, course) ==
    LET existing_names == {cs[i].name : i \in 1..Len(cs)}
    IN  IF course.name \notin existing_names
        THEN [courses |-> Append(cs, course), returned |-> "True"]
        ELSE [courses |-> cs, returned |-> "False"]

\* A clock time "HH:MM" is [hour, minute]; the format {:02d} is one-to-one.
ClockTime(h, m) == [hour |-> h, minute |-> m]

\* Tenths of an hour t, up to 4.0 h, on which the double (t/10 % 1) * 60
\* lies just below the whole number 6 * (t % 10): int() drops a minute.
TruncatedTenths == {12, 14, 19, 23, 24, 28, 29, 33, 34, 38, 39}

\* end_minute = int((duration_hours % 1) * 60), duration_hours in tenths
EndMinute(duration_hours) ==
    LET tenths == duration_hours \div 2
    IN  6 * (tenths % 10) - (IF tenths \in TruncatedTenths THEN 1 ELSE 0)

\* end_hour = current_hour + int(duration_hours)
EndHour(current_hour, duration_hours) == current_hour + duration_hours \div 20

\* the block appended for one session
Block(session, current_hour) ==
    [assignment |-> session.assignment,
     start_time |-> ClockTime(current_hour, 0),
     end_time |-> ClockTime(EndHour(current_hour, session.hours),
                            EndMinute(session.hours)),
     duration_hours |-> session.hours,
     urgency |-> session.urgency,
     due_date |-> session.due_date]

\* current_hour after a block: the next hour when it ends past :45
NextHour(end_hour, end_minute) ==
    IF end_minute > 0 /\ end_minute <= 45
    THEN end_hour
    ELSE end_hour + (IF end_minute > 45 THEN 1 ELSE 0)

\* the loop of create_time_blocks over the sessions, from current_hour on
RECURSIVE TimeBlocksFrom(_, _)
TimeBlocksFrom(sessions, current_hour) ==
    IF sessions = <<>> THEN <<>>
    ELSE LET block == Block(Head(sessions), current_hour)
         IN  <<block>> \o TimeBlocksFrom(
                              Tail(sessions),
                              NextHour(block.end_time.hour,
                                       block.end_time.minute))

TimeBlocksOverHalfHour(sessions) ==
    TimeBlocksFrom(SelectSeq(sessions, LAMBDA x : x.hours > MinBlock),
                   StartHour)

\* StudyOptimizer.create_time_blocks: the value returned
TimeBlocks(sessions) == TimeBlocksFrom(sessions, StartHour)

\* The document data/study_data.json is [kind, courses, assignments]:
\* "missing" (no file), "invalid" (not JSON), "array" (JSON, but a list
\* instead of an object) or "object" with its two lists of records.  A
\* record has a shape: "ok", "no_field" (a required key is absent),
\* "not_object" (a course entry that is a number) or "no_completed" (an
\* assignment without the optional key).  A date string is <<day, tod>>;
\* any other text is no ISO date.
MissingFile == [kind |-> "missing", courses |-> <<>>, assignments |-> <<>>]
InvalidJson == [kind |-> "invalid", courses |-> <<>>, assignments |-> <<>>]
JsonArray == [kind |-> "array", courses |-> <<>>, assignments |-> <<>>]
NotIsoText == <<>>

\* datetime.isoformat and datetime.fromisoformat
IsoFormat(dt) == <<dt.day, dt.tod>>
IsIsoText(text) == Len(text) = 2
FromIsoFormat(text) == DateTime(text[1], text[2])

\* Course.to_dict and Assignment.to_dict
CourseToDict(course) ==
    [shape |-> "ok", name |-> course.name, credits |-> course.credits,
     difficulty |-> course.difficulty, weekly_hours |-> course.weekly_hours]

AssignmentToDict(a) ==
    [shape |-> "ok", due_date |-> IsoFormat(a.due_date),
     estimated_hours |-> a.estimated_hours, priority |-> a.priority,
     completed |-> a.completed]

\* DataHandler.save_data: the document afterwards and the value returned;
\* isoformat raises on a due_date that is no datetime, before the file is
\* opened
SaveDataRun(cs, as, f) ==
    IF \A i \in 1..Len(as) : as[i].due_date.ok
    THEN [file |-> [kind |-> "object",
                    courses |-> [i \in 1..Len(cs) |-> CourseToDict(cs[i])],
                    assignments |->
                        [i \in 1..Len(as) |-> AssignmentToDict(as[i])]],
          returned |-> "True"]
    ELSE [file |-> f, returned |-> "False"]

\* the loop over data.get('courses', []): the courses appended and the
\* exception that ended the loop, if any
RECURSIVE LoadCourses(_, _)
LoadCourses(items, loaded) ==
    IF items = <<>> THEN [raised |-> "none", courses |-> loaded]
    ELSE LET course_data == Head(items)
         IN  IF course_data.shape = "not_object"
             THEN [raised |-> "TypeError", courses |-> loaded]
             ELSE IF course_data.shape = "no_field"
             THEN [raised |-> "KeyError", courses |-> loaded]
             ELSE LoadCourses(
                      Tail(items),
                      Append(loaded,
                             [name |-> course_data.name,
                              credits |-> course_data.credits,
                              difficulty |-> course_data.difficulty,
                              weekly_hours |-> course_data.weekly_hours]))

\* the loop over data.get('assignments', [])
RECURSIVE LoadAssignments(_, _)
LoadAssignments(items, loaded) ==
    IF items = <<>> THEN [raised |-> "none", assignments |-> loaded]
    ELSE LET assignment_data == Head(items)
         IN  IF assignment_data.shape = "no_field"
             THEN [raised |-> "KeyError", assignments |-> loaded]
             ELSE IF ~IsIsoText(assignment_data.due_date)
             THEN [raised |-> "ValueError", assignments |-> loaded]
             ELSE LoadAssignments(
                      Tail(items),
                      Append(loaded,
                             [due_date |->
                                  FromIsoFormat(assignment_data.due_date),
                              estimated_hours |->
                                  assignment_data.estimated_hours,
                              priority |-> assignment_data.priority,
                              completed |->
                                  IF assignment_data.shape = "no_completed"
                                  THEN FALSE
                                  ELSE assignment_data.completed]))

\* the try block of load_data: the two lists where it returned or raised
LoadBody(cs, as, f) ==
    IF f.kind = "missing"
    THEN [raised |-> "none", courses |-> <<>>, assignments |-> <<>>]
    ELSE IF f.kind = "invalid"
    THEN [raised |-> "JSONDecodeError", courses |-> cs, assignments |-> as]
    ELSE IF f.kind = "array"
    THEN [raised |-> "AttributeError", courses |-> <<>>, assignments |-> as]
    ELSE LET c == LoadCourses(f.courses, <<>>)
             a == LoadAssignments(f.assignments, <<>>)
         IN  IF c.raised # "none"
             THEN [raised |-> c.raised, courses |-> c.courses,
                   assignments |-> as]
             ELSE [raised |-> a.raised, courses |-> c.courses,
                   assignments |-> a.assignments]

KeepsWhatWasLoaded(body) ==
    [courses |-> body.courses, assignments |-> body.assignments,
     returned |-> IF body.raised = "none" THEN "True" ELSE "False"]

\* the end of load_data: return True, or one of the three except blocks
\* (JSONDecodeError, KeyError, Exception), which do the same
LoadOutcome(body) ==
    IF body.raised = "none"
    THEN [courses |-> body.courses, assignments |-> body.assignments,
          returned |-> "True"]
    ELSE [courses |-> <<>>, assignments |-> <<>>, returned |-> "False"]

\* DataHandler.load_data: the two lists afterwards and the value returned
LoadDataRun(cs, as, f) == LoadOutcome(LoadBody(cs, as, f))

----------------------------------------------------------------------------
(* Inputs *)

NowChoices == {DateTime(0, t) : t \in TimesOfDay}

\* Spec: due dates at midnight of yesterday, today, tomorrow and in 3 days
DueChoices == {DateTime(d, 0) : d \in {-1, 0, 1, 3}}
HoursChoices == {15, 85}            \* 0.75 h and 4.25 h
PriorityChoices == {1, MaxPriority}
BudgetChoices == {30, DefaultHoursPerDay}   \* 1.5 h and the default 8 h

AssignmentChoices ==
    [due_date : DueChoices, estimated_hours : HoursChoices,
     priority : PriorityChoices, completed : BOOLEAN]

\* SpecScore: one assignment, any due date in range or a malformed one
ScoreAssignments ==
    [due_date : {DateTime(d, t) : d \in (-OverdueDays)..MaxDueDays,
                                  t \in TimesOfDay} \cup {NotADatetime},
     estimated_hours : {20}, priority : 1..MaxPriority, completed : {FALSE}]

\* SpecScenario: two pending assignments drawn around the scenario of a
\* 10 h assignment of priority 5 due in 3 days and a 12 h assignment of
\* priority 3 due in 14 days
ScenarioAssignments ==
    [due_date : {DateTime(d, t) : d \in {3, 14}, t \in TimesOfDay},
     estimated_hours : {200, 240}, priority : {3, MaxPriority},
     completed : {FALSE}]

\* Course(name, credits, difficulty, weekly_hours)
CourseNames == {"Calculus", "Physics", "History"}

CourseChoices ==
    [name : CourseNames, credits : {3, 4}, difficulty : {3},
     weekly_hours : {6}]

\* SpecStore: assignments due tomorrow, pending or completed
StoreAssignments ==
    [due_date : {DateTime(1, 0)}, estimated_hours : HoursChoices,
     priority : {MaxPriority}, completed : BOOLEAN]

\* SpecLoad: the records of the initial document
CourseRecords ==
    {[shape |-> sh, name |-> "Calculus", credits |-> 4, difficulty |-> 3,
      weekly_hours |-> 6] : sh \in {"ok", "no_field", "not_object"}}

AssignmentRecords ==
    {[shape |-> sh, due_date |-> IsoFormat(DateTime(1, 0)),
      estimated_hours |-> 20, priority |-> 1, completed |-> TRUE] :
         sh \in {"ok", "no_field", "no_completed"}}
    \cup {[shape |-> "ok", due_date |-> NotIsoText, estimated_hours |-> 20,
           priority |-> 1, completed |-> FALSE]}

RecordLists(records) ==
    UNION {[1..n -> records] : n \in 0..MaxRecords}

FileChoices ==
    {MissingFile, InvalidJson, JsonArray}
    \cup [kind : {"object"}, courses : RecordLists(CourseRecords),
          assignments : RecordLists(AssignmentRecords)]

\* SpecLoad: what the caller adds to the store
LoadCourseChoices ==
    [name : {"Physics"}, credits : {3}, difficulty : {3}, weekly_hours : {6}]

LoadAssignmentChoices ==
    [due_date : {DateTime(3, 0), NotADatetime}, estimated_hours : {40},
     priority : {1}, completed : {FALSE}]

\* SpecApp: the form's assignments (whole hours, due at midnight, pending)
\* and the two sliders of generate_schedule
AppAssignments ==
    [due_date : {DateTime(1, 0), DateTime(7, 0)}, estimated_hours : {20, 100},
     priority : {3}, completed : {FALSE}]

AppDaysAhead == {3, 10}
AppDailyHours == {40, 160}

\* session lengths in tenths of an hour, 0.1 h to 4.0 h
SessionHours == {2 * t : t \in 1..(MaxPerDay \div 2)}

\* the sessions of one day: the i-th session belongs to assignment i
SessionLists ==
    {[i \in 1..n |-> [assignment |-> i, hours |-> hs[i], urgency |-> 0,
                      due_date |-> 0]] :
        n \in 0..MaxSessions, hs \in [1..MaxSessions -> SessionHours]}

----------------------------------------------------------------------------
(* Actions *)

\* nothing has been returned to the caller
NoOutputs ==
    /\ scored = 0
    /\ score = 0
    /\ working_assignments = <<>>
    /\ result = NoResult
    /\ day_log = <<>>
    /\ returned = "none"
    /\ daily_sessions = <<>>
    /\ time_blocks = <<>>
    /\ schedule_data = <<>>

Init ==
    /\ assignments = <<>>
    /\ courses = <<>>
    /\ file = MissingFile
    /\ available_hours_per_day = DefaultHoursPerDay
    /\ now \in NowChoices
    /\ pc = "idle"
    /\ NoOutputs

\* DataHandler.add_assignment
AddAssignment(a) ==
    /\ pc = "idle"
    /\ Len(assignments) < MaxAssignments
    /\ assignments' = Append(assignments, a)
    /\ UNCHANGED <<courses, file, available_hours_per_day, now, pc, outputs>>

\* data_handler.add_course(course)
AddCourse(course) ==
    /\ pc = "idle"
    /\ Len(courses) < MaxCourses
    /\ LET r == AddCourseRun(courses, course)
       IN  /\ courses' = r.courses
           /\ returned' = r.returned
    /\ pc' = "added"
    /\ UNCHANGED <<assignments, file, available_hours_per_day, now, scored,
                   score, working_assignments, result, day_log,
                   daily_sessions, time_blocks, schedule_data>>

\* data_handler.save_data()
SaveData ==
    /\ pc = "idle"
    /\ LET r == SaveDataRun(courses, assignments, file)
       IN  /\ file' = r.file
           /\ returned' = r.returned
    /\ pc' = "saved"
    /\ UNCHANGED <<assignments, courses, available_hours_per_day, now, scored,
                   score, working_assignments, result, day_log,
                   daily_sessions, time_blocks, schedule_data>>

\* data_handler.load_data()
LoadData ==
    /\ pc = "idle"
    /\ LET r == LoadDataRun(courses, assignments, file)
       IN  /\ courses' = r.courses
           /\ assignments' = r.assignments
           /\ returned' = r.returned
    /\ pc' = "loaded"
    /\ UNCHANGED <<file, available_hours_per_day, now, scored, score,
                   working_assignments, result, day_log, daily_sessions,
                   time_blocks, schedule_data>>

\* app.py: the Complete button of assignment i
CompleteAssignment(i) ==
    /\ pc = "idle"
    /\ i \in 1..Len(assignments)
    /\ ~assignments[i].completed
    /\ assignments' = [assignments EXCEPT ![i].completed = TRUE]
    /\ UNCHANGED <<courses, file, available_hours_per_day, now, pc, outputs>>

\* app.py: the Generate Schedule button, with the two sliders' values
GenerateSchedule(days_ahead, daily_hours) ==
    /\ pc = "idle"
    /\ GetPendingAssignments(assignments) # <<>>
    /\ schedule_data' = GenerateScheduleRun(assignments, now, days_ahead,
                                            daily_hours)
    /\ pc' = "generated"
    /\ UNCHANGED <<state, scored, score, working_assignments, result, day_log,
                   returned, daily_sessions, time_blocks>>

\* optimizer.available_hours_per_day = h
SetAvailableHours(h) ==
    /\ pc = "idle"
    /\ h # available_hours_per_day
    /\ available_hours_per_day' = h
    /\ UNCHANGED <<assignments, courses, file, now, pc, outputs>>

\* a call of calculate_urgency_score on a stored assignment
ScoreAssignment(i) ==
    /\ pc = "idle"
    /\ i \in 1..Len(assignments)
    /\ scored' = i
    /\ score' = CalculateUrgencyScore(assignments[i], now)
    /\ pc' = "scored"
    /\ UNCHANGED <<state, working_assignments, result, day_log, returned,
                   daily_sessions, time_blocks, schedule_data>>

\* a call of simple_schedule(days_ahead)
SimpleSchedule(days_ahead) ==
    /\ pc = "idle"
    /\ LET r == SimpleScheduleRun(assignments, available_hours_per_day, now,
                                  days_ahead)
       IN  /\ working_assignments' = r.working
           /\ result' = r.result
           /\ day_log' = r.log
           /\ assignments' = StoreAfterRun(assignments, r.working)
    /\ pc' = "scheduled"
    /\ UNCHANGED <<courses, file, available_hours_per_day, now, scored, score,
                   returned, daily_sessions, time_blocks, schedule_data>>

\* a call of create_time_blocks(sessions)
CreateTimeBlocks(sessions) ==
    /\ pc = "idle"
    /\ daily_sessions' = sessions
    /\ time_blocks' = TimeBlocks(sessions)
    /\ pc' = "blocked"
    /\ UNCHANGED <<state, scored, score, working_assignments, result, day_log,
                   returned, schedule_data>>

\* the caller is done with the returned value
Continue ==
    /\ pc # "idle"
    /\ pc' = "idle"
    /\ scored' = 0
    /\ score' = 0
    /\ working_assignments' = <<>>
    /\ result' = NoResult
    /\ day_log' = <<>>
    /\ returned' = "none"
    /\ daily_sessions' = <<>>
    /\ time_blocks' = <<>>
    /\ schedule_data' = <<>>
    /\ UNCHANGED state

Next ==
    \/ \E a \in AssignmentChoices : AddAssignment(a)
    \/ \E h \in BudgetChoices : SetAvailableHours(h)
    \/ \E i \in 1..MaxAssignments : ScoreAssignment(i)
    \/ \E d \in 1..MaxDaysAhead : SimpleSchedule(d)
    \/ Continue

Spec == Init /\ [][Next]_vars

\* the urgency scorer alone, over a wide range of due dates
InitScore ==
    /\ assignments \in {<<a>> : a \in ScoreAssignments}
    /\ courses = <<>>
    /\ file = MissingFile
    /\ available_hours_per_day = DefaultHoursPerDay
    /\ now \in NowChoices
    /\ pc = "idle"
    /\ NoOutputs

NextScore ==
    \/ ScoreAssignment(1)
    \/ Continue

SpecScore == InitScore /\ [][NextScore]_vars

\* the allocator on two long assignments over a horizon of 10 days
InitScenario ==
    /\ assignments \in {<<a, b>> : a, b \in ScenarioAssignments}
    /\ courses = <<>>
    /\ file = MissingFile
    /\ available_hours_per_day = DefaultHoursPerDay
    /\ now \in NowChoices
    /\ pc = "idle"
    /\ NoOutputs

NextScenario ==
    \/ SimpleSchedule(ScenarioDays)
    \/ Continue

SpecScenario == InitScenario /\ [][NextScenario]_vars

\* The time-block formatter on its own, on any sessions of one day.
NextBlocks ==
    \/ pc = "idle" /\ \E sessions \in SessionLists : CreateTimeBlocks(sessions)
    \/ Continue

SpecBlocks == Init /\ [][NextBlocks]_vars

\* The store of courses and assignments and the runs of the scheduler.
NextStore ==
    \/ \E course \in CourseChoices : AddCourse(course)
    \/ \E a \in StoreAssignments : AddAssignment(a)
    \/ \E days_ahead \in 1..MaxDaysAhead : SimpleSchedule(days_ahead)
    \/ Continue

SpecStore == Init /\ [][NextStore]_vars

\* The store and its document: any document to start with, then adding,
\* saving and loading.
InitLoad ==
    /\ assignments = <<>>
    /\ courses = <<>>
    /\ file \in FileChoices
    /\ available_hours_per_day = DefaultHoursPerDay
    /\ now = DateTime(0, 0)
    /\ pc = "idle"
    /\ NoOutputs

NextLoad ==
    \/ \E course \in LoadCourseChoices : AddCourse(course)
    \/ \E a \in LoadAssignmentChoices : AddAssignment(a)
    \/ SaveData
    \/ LoadData
    \/ Continue

SpecLoad == InitLoad /\ [][NextLoad]_vars

\* The pages of the UI that add and complete assignments and generate the
\* schedule.
NextApp ==
    \/ \E a \in AppAssignments : AddAssignment(a)
    \/ \E i \in 1..MaxAssignments : CompleteAssignment(i)
    \/ \E days_ahead \in AppDaysAhead, daily_hours \in AppDailyHours :
           GenerateSchedule(days_ahead, daily_hours)
    \/ Continue

SpecApp == Init /\ [][NextApp]_vars

----------------------------------------------------------------------------
(* Properties *)

Schedule == result.schedule

\* the days of the returned schedule and the positions of a day's sessions
Days == 1..Len(Schedule)
SessionsOf(d) == Schedule[d].sessions

RECURSIVE HoursFor(_, _)
HoursFor(sessions, i) ==
    IF sessions = <<>> THEN 0
    ELSE (IF Head(sessions).assignment = i THEN Head(sessions).hours ELSE 0)
         + HoursFor(Tail(sessions), i)

\* the session hours emitted for assignment i over the first n days returned
RECURSIVE HoursForUpTo(_, _)
HoursForUpTo(i, n) ==
    IF n = 0 THEN 0
    ELSE HoursFor(SessionsOf(n), i) + HoursForUpTo(i, n - 1)

DaysLeft(i) == DaysUntilDue(assignments[i].due_date, now)

\* C1: after a run of simple_schedule, the session hours emitted for an
\* assignment, summed over all days of the schedule, do not exceed its
\* estimated_hours.
C1_HoursWithinEstimate ==
    pc = "scheduled" =>
        \A i \in 1..Len(assignments) :
            HoursForUpTo(i, Len(Schedule)) <= assignments[i].estimated_hours

\* C2: on every day of the returned schedule the hours of the day's sessions
\* sum to at most available_hours_per_day.
C2_DayWithinBudget ==
    pc = "scheduled" =>
        \A d \in Days : SumHours(SessionsOf(d)) <= available_hours_per_day

\* C3: no session of an assignment lies on a day after the date of its due
\* date, and the due day itself is eligible: the most urgent pending
\* assignment, when due today with more than 0.5 h to do and a budget above
\* 0.5 h, opens today's sessions.
C3_NoSessionAfterDue ==
    pc = "scheduled" =>
        /\ \A d \in Days : \A k \in DOMAIN SessionsOf(d) :
               Schedule[d].date
                   <= Date(assignments[SessionsOf(d)[k].assignment].due_date)
        /\ (/\ working_assignments # <<>>
            /\ Date(assignments[working_assignments[1].assignment].due_date)
                   = Date(now)
            /\ assignments[working_assignments[1].assignment].estimated_hours
                   > MinBlock
            /\ available_hours_per_day > MinBlock)
           => /\ Schedule # <<>>
              /\ Schedule[1].date = Date(now)
              /\ SessionsOf(1)[1].assignment
                     = working_assignments[1].assignment

\* a session on the due day itself, on a day after today
C3_Witness ==
    /\ pc = "scheduled"
    /\ \E d \in Days : \E k \in DOMAIN SessionsOf(d) :
           /\ Schedule[d].date
                  = Date(assignments[SessionsOf(d)[k].assignment].due_date)
           /\ Schedule[d].date > Date(now)

\* C4: calculate_urgency_score returns a value in 0..100 for every priority
\* in 1..5 and every days_until_due, the fallback path included.
C4_ScoreInRange ==
    pc = "scored" => score \in 0..100

\* the fallback path was taken
C4_Witness ==
    /\ pc = "scored"
    /\ ~assignments[scored].due_date.ok
    /\ score = 10 * MaxPriority

\* C5: an assignment whose due date-time lies before now, by any amount,
\* scores exactly 100 whatever its priority.
C5_OverdueScores100 ==
    (/\ pc = "scored"
     /\ assignments[scored].due_date.ok
     /\ Ticks(assignments[scored].due_date) < Ticks(now))
    => score = 100

\* overdue by less than a day, lowest priority
C5_Witness ==
    /\ pc = "scored"
    /\ assignments[scored].due_date.ok
    /\ Date(assignments[scored].due_date) = Date(now)
    /\ Ticks(assignments[scored].due_date) < Ticks(now)
    /\ assignments[scored].priority = 1
    /\ score = 100

\* C6: a pending assignment with days_until_due = 0 has urgency 90 and stands,
\* in the working order and in every day's sessions, before every assignment
\* with days_until_due >= 1.
C6_DueTodayFirst ==
    pc = "scheduled" =>
        /\ \A j \in DOMAIN working_assignments :
               DaysLeft(working_assignments[j].assignment) = 0
                   => /\ working_assignments[j].urgency = 90
                      /\ \A k \in DOMAIN working_assignments :
                             DaysLeft(working_assignments[k].assignment) >= 1
                                 => j < k
        /\ \A d \in Days : \A j, k \in DOMAIN SessionsOf(d) :
               (/\ DaysLeft(SessionsOf(d)[j].assignment) = 0
                /\ DaysLeft(SessionsOf(d)[k].assignment) >= 1) => j < k

\* a low-priority assignment due today was moved ahead of a top-priority one
\* added before it, and got its session first
C6_Witness ==
    /\ pc = "scheduled"
    /\ Len(working_assignments) = 2
    /\ working_assignments[1].assignment = 2
    /\ DaysLeft(2) = 0 /\ assignments[2].priority = 1
    /\ DaysLeft(1) >= 2 /\ assignments[1].priority = MaxPriority
    /\ Schedule # <<>>
    /\ Len(SessionsOf(1)) = 2
    /\ SessionsOf(1)[1].assignment = 2

\* C7: for a fixed priority the score does not increase with days_until_due
\* over days_until_due > 1.
C7_ScoreMonotone ==
    (/\ pc = "scored"
     /\ assignments[scored].due_date.ok
     /\ DaysLeft(scored) > 1)
    => \A b \in ScoreAssignments :
           (/\ b.due_date.ok
            /\ b.priority = assignments[scored].priority
            /\ DaysUntilDue(b.due_date, now) > DaysLeft(scored))
           => CalculateUrgencyScore(b, now) <= score

\* a score that a later due date lowers strictly and a still later one no more
C7_Witness ==
    /\ pc = "scored"
    /\ assignments[scored].due_date.ok
    /\ DaysLeft(scored) > 1
    /\ \E b, c \in ScoreAssignments :
           /\ b.due_date.ok /\ c.due_date.ok
           /\ b.priority = assignments[scored].priority
           /\ c.priority = b.priority
           /\ DaysUntilDue(b.due_date, now) > DaysLeft(scored)
           /\ DaysUntilDue(c.due_date, now) > DaysUntilDue(b.due_date, now)
           /\ CalculateUrgencyScore(b, now) < score
           /\ CalculateUrgencyScore(c, now) = CalculateUrgencyScore(b, now)

\* C8: simple_schedule returns "No assignments", an empty schedule and 0 hours
\* when no assignment is pending, and "Success" in every other case.
C8_Status ==
    pc = "scheduled" =>
        IF \A i \in 1..Len(assignments) : assignments[i].completed
        THEN /\ result.status = "No assignments"
             /\ Schedule = <<>>
             /\ result.total_study_hours = 0
        ELSE result.status = "Success"

\* "Success" with pending work and no session emitted
C8_Witness ==
    /\ pc = "scheduled"
    /\ \E i \in 1..Len(assignments) : ~assignments[i].completed
    /\ result.status = "Success"
    /\ Schedule = <<>>

\* C9: within each returned day the sessions are in non-increasing urgency,
\* and sessions of equal urgency are in the order in which their assignments
\* were added; the working copy is in the same order.
C9_UrgencyOrder ==
    pc = "scheduled" =>
        /\ \A d \in Days : \A j, k \in DOMAIN SessionsOf(d) :
               j < k =>
                   /\ SessionsOf(d)[j].urgency >= SessionsOf(d)[k].urgency
                   /\ SessionsOf(d)[j].urgency = SessionsOf(d)[k].urgency
                          => SessionsOf(d)[j].assignment
                                 < SessionsOf(d)[k].assignment
        /\ \A j, k \in DOMAIN working_assignments :
               j < k =>
                   /\ working_assignments[j].urgency
                          >= working_assignments[k].urgency
                   /\ working_assignments[j].urgency
                          = working_assignments[k].urgency
                          => working_assignments[j].assignment
                                 < working_assignments[k].assignment

\* a day with two sessions of equal urgency
C9_Witness ==
    /\ pc = "scheduled"
    /\ \E d \in Days :
           /\ Len(SessionsOf(d)) = 2
           /\ SessionsOf(d)[1].urgency = SessionsOf(d)[2].urgency
           /\ SessionsOf(d)[1].assignment = 1

\* the store holds A (priority 5, due in 3 days, 10 h) and then B (priority 3,
\* due in 14 days, 12 h), the budget is 8 h and the horizon was 10 days
InScenario ==
    /\ pc = "scheduled"
    /\ available_hours_per_day = DefaultHoursPerDay
    /\ Len(assignments) = 2
    /\ assignments[1].priority = MaxPriority
    /\ assignments[1].estimated_hours = 200
    /\ Date(assignments[1].due_date) = Date(now) + 3
    /\ assignments[2].priority = 3
    /\ assignments[2].estimated_hours = 240
    /\ Date(assignments[2].due_date) = Date(now) + 14

\* the assignment and the hours of each session of day d
Allocations(d) ==
    [k \in DOMAIN SessionsOf(d) |->
        <<SessionsOf(d)[k].assignment, SessionsOf(d)[k].hours>>]

\* C10 as stated: the first day schedules A for 4 h ahead of B, the second day
\* continues A until its 10 h are exhausted, and B then fills the remaining
\* budget of that day.
C10_AsStated ==
    InScenario =>
        /\ Len(Schedule) >= 2
        /\ Allocations(1)[1] = <<1, 80>>
        /\ HoursForUpTo(1, 2) = assignments[1].estimated_hours
        /\ HoursFor(SessionsOf(2), 2)
               = available_hours_per_day - HoursFor(SessionsOf(2), 1)

\* C10, amended: A then B get 4 h each on the first and on the second day; on
\* the third day A gets its last 2 h and B its last 4 h; no later day has a
\* session and 22 h are planned in all.
C10_Scenario ==
    InScenario =>
        /\ Len(Schedule) = 3
        /\ \A d \in Days : Schedule[d].date = Date(now) + d - 1
        /\ Allocations(1) = << <<1, 80>>, <<2, 80>> >>
        /\ Allocations(2) = << <<1, 80>>, <<2, 80>> >>
        /\ Allocations(3) = << <<1, 40>>, <<2, 80>> >>
        /\ \A k \in DOMAIN working_assignments :
               working_assignments[k].remaining_hours = 0
        /\ result.total_study_hours = 440
        /\ result.status = "Success"

\* the scenario was run, the due dates less than 3 and 14 whole days away
C10_Witness ==
    /\ InScenario
    /\ DaysLeft(1) = 2
    /\ DaysLeft(2) = 13
    /\ Len(Schedule) = 3

\* a clock time is earlier than another
Earlier(a, b) ==
    a.hour < b.hour \/ (a.hour = b.hour /\ a.minute < b.minute)

\* C11: the blocks returned by create_time_blocks are contiguous and do not
\* overlap: each block after the first starts exactly when the block before
\* it ends, never earlier.
C11_Contiguous ==
    pc = "blocked" =>
        \A k \in 1..(Len(time_blocks) - 1) :
            /\ time_blocks[k + 1].start_time = time_blocks[k].end_time
            /\ ~Earlier(time_blocks[k + 1].start_time, time_blocks[k].end_time)

\* C12: create_time_blocks returns exactly one block per session, in the
\* order of the sessions, each carrying its session's assignment and hours;
\* the first block starts at 09:00 and no sessions give no blocks.
C12_OneBlockPerSession ==
    pc = "blocked" =>
        /\ Len(time_blocks) = Len(daily_sessions)
        /\ \A k \in 1..Len(daily_sessions) :
               /\ time_blocks[k].assignment = daily_sessions[k].assignment
               /\ time_blocks[k].duration_hours = daily_sessions[k].hours
        /\ daily_sessions # <<>> =>
               time_blocks[1].start_time = ClockTime(StartHour, 0)
        /\ daily_sessions = <<>> => time_blocks = <<>>

\* two sessions, the first of them of no more than half an hour
C12_Witness ==
    /\ pc = "blocked"
    /\ Len(daily_sessions) = MaxSessions
    /\ daily_sessions[1].hours <= MinBlock
    /\ daily_sessions[2].hours > MaxPerDay \div 2
    /\ time_blocks[2].assignment = 2

\* C13: a run of simple_schedule leaves the store as it was: as many courses
\* and assignments after it as before, every stored assignment with the
\* same estimated_hours and completed flag; what the run decrements is the
\* remaining_hours of its working records, which start at estimated_hours.
C13_StoreUnchanged ==
    [][pc = "idle" /\ pc' = "scheduled" =>
          /\ Len(courses') = Len(courses)
          /\ Len(assignments') = Len(assignments)
          /\ \A i \in 1..Len(assignments) :
                 /\ assignments'[i].estimated_hours =
                        assignments[i].estimated_hours
                 /\ assignments'[i].completed = assignments[i].completed
          /\ \A k \in 1..Len(working_assignments') :
                 working_assignments'[k].remaining_hours <=
                     assignments[working_assignments'[k].assignment]
                         .estimated_hours]_vars

\* a run over a store with a course, a completed assignment and a pending
\* one whose working record has been decremented to nothing
C13_Witness ==
    /\ pc = "scheduled"
    /\ courses # <<>>
    /\ \E i \in 1..Len(assignments) : assignments[i].completed
    /\ \E k \in 1..Len(working_assignments) :
           /\ working_assignments[k].remaining_hours = 0
           /\ assignments[working_assignments[k].assignment].estimated_hours
                  > 0

\* C15: the name is the key of a course: whatever add_course calls were
\* made, no two stored courses share a name, and an add_course whose name
\* is already stored returns False and leaves the list of courses as it was.
C15_UniqueNames ==
    /\ [](\A i, j \in 1..Len(courses) :
             courses[i].name = courses[j].name => i = j)
    /\ [][\A course \in CourseChoices :
              (/\ AddCourse(course)
               /\ \E i \in 1..Len(courses) : courses[i].name = course.name)
              => returned' = "False" /\ courses' = courses]_vars

\* a refused add_course on a store of one course
C15_Witness ==
    /\ pc = "added"
    /\ returned = "False"
    /\ Len(courses) = 1
    /\ courses[1].credits = 3

\* the document's content is malformed: no JSON, no JSON object, or a
\* record that cannot be read (a missing required field, an entry that is
\* no object, a due_date that is no ISO date), wherever in its list
Malformed(f) ==
    \/ f.kind \in {"invalid", "array"}
    \/ /\ f.kind = "object"
       /\ \/ \E i \in 1..Len(f.courses) : f.courses[i].shape # "ok"
          \/ \E i \in 1..Len(f.assignments) :
                 \/ f.assignments[i].shape = "no_field"
                 \/ f.assignments[i].due_date = NotIsoText

\* C14: load_data always returns a value: with no document it returns True
\* and courses and assignments are empty; with malformed content it returns
\* False and both lists are empty, whatever they held before and however
\* many records had been read; otherwise it returns True.
C14_LoadNeverRaises ==
    pc = "loaded" =>
        /\ returned \in {"True", "False"}
        /\ file.kind = "missing" =>
               returned = "True" /\ courses = <<>> /\ assignments = <<>>
        /\ Malformed(file) =>
               returned = "False" /\ courses = <<>> /\ assignments = <<>>
        /\ returned = "True" <=> ~Malformed(file)

\* a failed load of a document whose courses are all readable and whose
\* second assignment is not, the first being readable
C14_Witness ==
    /\ pc = "loaded"
    /\ returned = "False"
    /\ file.kind = "object"
    /\ \A i \in 1..Len(file.courses) : file.courses[i].shape = "ok"
    /\ file.courses # <<>>
    /\ Len(file.assignments) = 2
    /\ ~Malformed([file EXCEPT !.assignments = <<file.assignments[1]>>])

\* the hours of the rows of assignment i
RECURSIVE RowHours(_, _)
RowHours(rows, i) ==
    IF rows = <<>> THEN 0
    ELSE (IF Head(rows).assignment = i THEN Head(rows).hours ELSE 0)
         + RowHours(Tail(rows), i)

\* C16: in the schedule generated by the UI the hours of one assignment,
\* summed over all planned days, never exceed its estimated_hours.
C16_RowsWithinEstimate ==
    pc = "generated" =>
        \A i \in 1..Len(assignments) :
            RowHours(schedule_data, i) <= assignments[i].estimated_hours

\* the working record at position k is given a session on logged day d
HasSession(d, k) ==
    \E x \in 1..Len(day_log[d].sessions) :
        day_log[d].sessions[x].assignment = day_log[d].before[k].assignment

\* the working record at position k may be worked on on logged day d: its
\* due date is not before that day
Eligible(d, k) ==
    Date(assignments[day_log[d].before[k].assignment].due_date)
        >= day_log[d].date

\* C17: simple_schedule is work-conserving within a day: when a processed
\* day ends with more than 0.5 h of its budget unused, every assignment
\* that is eligible that day and still has more than 0.5 h remaining has
\* been given a session that day; and no working record's remaining hours
\* and no day's remaining budget is ever negative.  (Both only decrease,
\* so their values at the end of each day are their least.)
C17_WorkConserving ==
    pc = "scheduled" =>
        \A d \in 1..Len(day_log) :
            /\ day_log[d].remaining_daily_hours > MinBlock =>
                   \A k \in 1..Len(day_log[d].before) :
                       (/\ Eligible(d, k)
                        /\ day_log[d].before[k].remaining_hours > MinBlock)
                       => HasSession(d, k)
            /\ day_log[d].remaining_daily_hours >= 0
            /\ \A k \in 1..Len(day_log[d].working) :
                   day_log[d].working[k].remaining_hours >= 0

\* a day that ends with budget to spare on which one assignment got its
\* session and another, no longer eligible, got none
C17_Witness ==
    /\ pc = "scheduled"
    /\ \E d \in 1..Len(day_log) :
           /\ day_log[d].remaining_daily_hours > MinBlock
           /\ \E k \in 1..Len(day_log[d].before) :
                  /\ Eligible(d, k)
                  /\ day_log[d].before[k].remaining_hours > MinBlock
                  /\ HasSession(d, k)
           /\ \E k \in 1..Len(day_log[d].before) :
                  /\ ~Eligible(d, k)
                  /\ day_log[d].before[k].remaining_hours > MinBlock
                  /\ ~HasSession(d, k)

============================================================================
